---- MODULE Spec2Model ----
(***************************************************************************)
(* Model of plugins/modules/checks.py: the Ansible module that creates,    *)
(* updates, deletes and pauses healthchecks.io checks.                     *)
(*                                                                         *)
(* Representation of Python values:                                        *)
(*   str   a sequence of pieces; every piece is a TLA+ string.  Text that  *)
(*         the code splits (uuid, ping_url) is written one character per   *)
(*         piece; literals of format strings are one piece each.           *)
(*   list  a sequence of values (tags: a sequence of strs).                *)
(*   dict  a function whose domain is the set of its keys.                 *)
(*   int   an integer, bool a BOOLEAN.                                     *)
(***************************************************************************)
EXTENDS Integers, Sequences, FiniteSets, TLC

VARIABLES
    pc,          \* "start" | "run" (arguments parsed, run() about to dispatch) | "exited"
    check_mode,  \* module.check_mode of the current invocation
    args,        \* the arguments the caller supplied (a dict)
    params,      \* module.params
    op,          \* the Checks method run() dispatched to, "none" before
    requests,    \* the calls made on self.rest during the current invocation
    response,    \* the response to the last call, NoResponse before
    outcome,     \* "none" | "exit_json" | "fail_json" | "exception"
    result,      \* the keyword arguments given to exit_json / fail_json
    exc,         \* the uncaught exception's type, "none" otherwise
    invocation,  \* number of invocations started so far
    remote,      \* the checks (uuids) the remote service holds
    hist         \* bookkeeping over a run of invocations (no program state)

vars == <<pc, check_mode, args, params, op, requests, response, outcome,
          result, exc, invocation, remote, hist>>

\* Number of invocations of the module in one behaviour.
MaxInvocations == 3

\* Number of uuids the remote service may hold.
MaxRemote == 2

----------------------------------------------------------------------------
\* Python helpers

EmptyDict == [k \in {} |-> k]

\* dict(d) with d[k] = v
Put(d, k, v) == [x \in DOMAIN d \cup {k} |-> IF x = k THEN v ELSE d[x]]

\* del d[k] / d.pop(k), on the dict left behind
Remove(d, k) == [x \in DOMAIN d \ {k} |-> d[x]]

\* d updated with the entries of a (a wins)
Merge(d, a) == [x \in DOMAIN d \cup DOMAIN a |-> IF x \in DOMAIN a THEN a[x] ELSE d[x]]

RECURSIVE Join(_, _)
\* sep.join(list)
Join(list, sep) ==
    IF list = <<>> THEN <<>>
    ELSE IF Len(list) = 1 THEN Head(list)
    ELSE Head(list) \o sep \o Join(Tail(list), sep)

RECURSIVE Split(_, _)
\* s.split(c): the list of the maximal c-free runs of s, empty runs included
Split(s, c) ==
    IF \A i \in 1..Len(s) : s[i] # c THEN <<s>>
    ELSE LET i == CHOOSE j \in 1..Len(s) :
                      s[j] = c /\ \A m \in 1..(j - 1) : s[m] # c
         IN  <<SubSeq(s, 1, i - 1)>> \o Split(SubSeq(s, i + 1, Len(s)), c)

Digit(d) ==
    CASE d = 0 -> "0" [] d = 1 -> "1" [] d = 2 -> "2" [] d = 3 -> "3"
      [] d = 4 -> "4" [] d = 5 -> "5" [] d = 6 -> "6" [] d = 7 -> "7"
      [] d = 8 -> "8" [] d = 9 -> "9"

RECURSIVE Decimal(_)
\* "{0}".format(n) for an int n >= 0
Decimal(n) == IF n < 10 THEN <<Digit(n)>> ELSE Decimal(n \div 10) \o <<Digit(n % 10)>>

----------------------------------------------------------------------------
\* Inputs: the texts the caller and the remote service may supply

UUID_ABC == <<"a", "b", "c", "-", "1", "2", "3">>

UUID_1 == <<"U", "U", "I", "D", "-", "1">>

UUID_2 == <<"u", "2">>

\* a ping_url whose path is /ping/<uuid>/ (a self-hosted instance)
URL_PING == <<"h", "t", "t", "p", "s", ":", "/", "/", "x", "/", "p", "i", "n", "g", "/", "U", "U", "I", "D", "-", "1", "/">>

\* a ping_url whose path is /<uuid> (the hosted service)
URL_HOSTED == <<"h", "t", "t", "p", "s", ":", "/", "/", "h", "c", "/", "a", "b", "c", "-", "1", "2", "3">>

\* a ping_url with fewer than four "/"-separated pieces
URL_SHORT == <<"x", "/", "y">>

TAG_DB == <<"d", "b">>

TAG_PROD == <<"p", "r", "o", "d">>

NAME_NIGHTLY == <<"nightly-backup">>

API_TOKEN == <<"token">>

\* An optional argument: <<>> when the caller omits it, <<v>> when it is v.
Optional(S) == {<<>>} \cup {<<v>> : v \in S}

StateArgs == Optional({"present", "absent", "pause"})

UuidArgs == Optional({UUID_ABC, UUID_1})

TagsArgs == Optional({<<>>, <<TAG_DB>>, <<TAG_DB, TAG_PROD>>})

NameArgs == Optional({NAME_NIGHTLY})

TimeoutArgs == Optional({86400})

\* The dict of the arguments supplied; api_token is always resolved.
Supplied(st, uu, tg, nm, tm) ==
    LET given == {k \in {"state", "uuid", "tags", "name", "timeout"} :
                    CASE k = "state" -> st # <<>>
                      [] k = "uuid" -> uu # <<>>
                      [] k = "tags" -> tg # <<>>
                      [] k = "name" -> nm # <<>>
                      [] k = "timeout" -> tm # <<>>}
    IN  [k \in given \cup {"api_token"} |->
            CASE k = "state" -> st[1]
              [] k = "uuid" -> uu[1]
              [] k = "tags" -> tg[1]
              [] k = "name" -> nm[1]
              [] k = "timeout" -> tm[1]
              [] k = "api_token" -> API_TOKEN]

Statuses == {200, 201, 204, 400, 404, 500}

Bodies == {[ping_url |-> URL_PING], [ping_url |-> URL_HOSTED],
           [ping_url |-> URL_SHORT], [error |-> <<"bad request">>]}

NoResponse == [status_code |-> 0, json |-> EmptyDict]

NoResult == [keys |-> {}, changed |-> FALSE, msg |-> <<>>, data |-> EmptyDict]

NoHist == [target |-> <<>>, changed |-> 0, real |-> 0, prior |-> 0, first |-> {}]

----------------------------------------------------------------------------
\* main(): the argument specification and AnsibleModule's validation

\* the default of every option of argument_spec that declares one
argument_spec ==
    [state |-> "present", name |-> <<>>, tags |-> <<>>, desc |-> <<>>,
     timeout |-> 86400, grace |-> 3600, schedule |-> <<"* * * * *">>,
     tz |-> <<"UTC">>, manual_resume |-> FALSE, methods |-> <<>>,
     channels |-> <<>>, unique |-> <<>>, uuid |-> <<>>]

required_if == {<<"state", "absent", {"uuid"}>>, <<"state", "pause", {"uuid"}>>}

\* AnsibleModule fills in every default that is not None before it checks
\* required_if.
set_defaults(spec, a) == Merge(spec, a)

\* The requirements of required_if that the parameters miss: a requirement
\* is missing when its key is not among the parameters.
check_required_if(reqs, p) ==
    {r \in reqs : /\ r[1] \in DOMAIN p
                  /\ p[r[1]] = r[2]
                  /\ \E k \in r[3] : k \notin DOMAIN p}

\* One invocation starts: AnsibleModule(argument_spec, supports_check_mode,
\* required_if) parses and validates, then main() calls run(module).
Main(a, cm) ==
    /\ \/ pc = "start"
       \/ pc = "exited" /\ invocation < MaxInvocations
    /\ invocation' = invocation + 1
    /\ args' = a
    /\ check_mode' = cm
    /\ params' = set_defaults(argument_spec, a)
    /\ op' = "none"
    /\ requests' = <<>>
    /\ response' = NoResponse
    /\ exc' = "none"
    /\ IF check_required_if(required_if, params') # {}
       THEN /\ pc' = "exited"
            /\ outcome' = "fail_json"
            /\ result' = [NoResult EXCEPT !.keys = {"msg"},
                                          !.msg = <<"missing required arguments">>]
       ELSE /\ pc' = "run"
            /\ outcome' = "none"
            /\ result' = NoResult
    /\ UNCHANGED <<remote, hist>>

----------------------------------------------------------------------------
\* run() and class Checks

\* run(): state = module.params.pop("state"); Checks.__init__:
\* module.params.pop("api_token")
popped(p) == Remove(Remove(p, "state"), "api_token")

exit_json(changed, msg, data) ==
    [outcome |-> "exit_json", exc |-> "none",
     result |-> [keys |-> {"changed", "msg", "data"}, changed |-> changed,
                 msg |-> msg, data |-> data]]

\* exit_json(changed=..., msg=...)
exit_json_msg(changed, msg) ==
    [outcome |-> "exit_json", exc |-> "none",
     result |-> [keys |-> {"changed", "msg"}, changed |-> changed,
                 msg |-> msg, data |-> EmptyDict]]

\* exit_json_data reporting a change whatever it is given
exit_json_data_changed(changed, data) ==
    [outcome |-> "exit_json", exc |-> "none",
     result |-> [keys |-> {"changed", "data"}, changed |-> TRUE,
                 msg |-> <<>>, data |-> data]]

\* exit_json(changed=..., data=...)
exit_json_data(changed, data) ==
    [outcome |-> "exit_json", exc |-> "none",
     result |-> [keys |-> {"changed", "data"}, changed |-> changed,
                 msg |-> <<>>, data |-> data]]

fail_json(changed, msg) ==
    [outcome |-> "fail_json", exc |-> "none",
     result |-> [keys |-> {"changed", "msg"}, changed |-> changed,
                 msg |-> msg, data |-> EmptyDict]]

\* an exception no handler catches ends the process with a traceback
raise(e) == [outcome |-> "exception", exc |-> e, result |-> NoResult]

\* request_params without the del of "uuid"
request_params_keeps_uuid(p) == Put(p, "tags", Join(p["tags"], <<" ">>))

\* create(): the body of the POST
request_params(p) ==
    LET copy == p
        without == Remove(copy, "uuid")
        tags == p["tags"]
    IN  Put(without, "tags", Join(tags, <<" ">>))

\* ping_uuid taking the last piece, split("/")[-1]
ping_uuid_last_piece(json_data) ==
    LET pieces == Split(json_data["ping_url"], "/") IN pieces[Len(pieces)]

\* create(): json_data.get("ping_url").split("/")[3]
ping_uuid(json_data) == Split(json_data["ping_url"], "/")[4]

\* create(): what follows the POST
create_response(resp) ==
    LET json_data == resp.json
        status_code == resp.status_code
    IN  IF "ping_url" \notin DOMAIN json_data THEN raise("AttributeError")
        ELSE IF Len(Split(json_data["ping_url"], "/")) < 4 THEN raise("IndexError")
        ELSE LET uuid == ping_uuid(json_data)
             IN  IF status_code = 200
                 THEN exit_json(TRUE, <<"Existing check ">> \o uuid \o <<" found and updated">>,
                                json_data)
                 ELSE IF status_code = 201
                 THEN exit_json(TRUE, <<"New check ">> \o uuid \o <<" created">>, json_data)
                 ELSE fail_json(FALSE, <<"Failed to create or update delete check [HTTP ">>
                                       \o Decimal(status_code) \o <<"]">>)

\* delete_response reporting a change for a 404 as well
delete_response_404_changed(uuid, status_code) ==
    IF status_code = 200 \/ status_code = 404
    THEN exit_json_msg(TRUE, <<"Check ">> \o uuid \o <<" successfully deleted">>)
    ELSE fail_json(FALSE, <<"Failed delete check ">> \o uuid \o <<" [HTTP ">>
                          \o Decimal(status_code) \o <<"]">>)

\* delete(): what follows the DELETE
delete_response(uuid, status_code) ==
    IF status_code = 200
    THEN exit_json_msg(TRUE, <<"Check ">> \o uuid \o <<" successfully deleted">>)
    ELSE IF status_code = 404
    THEN exit_json_msg(FALSE, <<"Check ">> \o uuid \o <<" not found">>)
    ELSE fail_json(FALSE, <<"Failed delete check ">> \o uuid \o <<" [HTTP ">>
                          \o Decimal(status_code) \o <<"]">>)

\* pause_response without the 404 branch
pause_response_404_fails(uuid, status_code) ==
    IF status_code = 200
    THEN exit_json_msg(TRUE, <<"Check ">> \o uuid \o <<" successfully paused">>)
    ELSE fail_json(FALSE, <<"Failed delete check ">> \o uuid \o <<" [HTTP ">>
                          \o Decimal(status_code) \o <<"]">>)

\* pause_response with a failure message of its own
pause_response_pause_wording(uuid, status_code) ==
    IF status_code = 200
    THEN exit_json_msg(TRUE, <<"Check ">> \o uuid \o <<" successfully paused">>)
    ELSE IF status_code = 404
    THEN exit_json_msg(FALSE, <<"Check ">> \o uuid \o <<" not found">>)
    ELSE fail_json(FALSE, <<"Failed pause check ">> \o uuid \o <<" [HTTP ">>
                          \o Decimal(status_code) \o <<"]">>)

\* pause(): what follows the POST
pause_response(uuid, status_code) ==
    IF status_code = 200
    THEN exit_json_msg(TRUE, <<"Check ">> \o uuid \o <<" successfully paused">>)
    ELSE IF status_code = 404
    THEN exit_json_msg(FALSE, <<"Check ">> \o uuid \o <<" not found">>)
    ELSE fail_json(FALSE, <<"Failed delete check ">> \o uuid \o <<" [HTTP ">>
                          \o Decimal(status_code) \o <<"]">>)

\* the process ends with the exit e
Exit(e) ==
    /\ pc' = "exited"
    /\ outcome' = e.outcome
    /\ result' = e.result
    /\ exc' = e.exc

\* run() with state "present": Checks(module).create()
Create(resp) ==
    /\ pc = "run"
    /\ params["state"] = "present"
    /\ op' = "create"
    /\ IF check_mode
       THEN /\ Exit(exit_json_data(FALSE, EmptyDict))
            /\ params' = popped(params)
            /\ UNCHANGED <<requests, response>>
       ELSE LET body == request_params(popped(params))
            IN  /\ params' = popped(params)
                /\ requests' = Append(requests,
                       [method |-> "POST", endpoint |-> <<"checks/">>, data |-> body])
                /\ response' = resp
                /\ Exit(create_response(resp))
    /\ UNCHANGED <<check_mode, args, invocation, remote, hist>>

\* run() with state "absent": Checks(module).delete()
Delete(status_code) ==
    /\ pc = "run"
    /\ params["state"] = "absent"
    /\ op' = "delete"
    /\ params' = popped(params)
    /\ IF check_mode
       THEN /\ Exit(exit_json_data(FALSE, EmptyDict))
            /\ UNCHANGED <<requests, response>>
       ELSE LET uuid == params["uuid"]
            IN  /\ requests' = Append(requests,
                       [method |-> "DELETE", endpoint |-> <<"checks/">> \o uuid])
                /\ response' = [status_code |-> status_code, json |-> EmptyDict]
                /\ Exit(delete_response(uuid, status_code))
    /\ UNCHANGED <<check_mode, args, invocation>>

\* run() with state "pause": Checks(module).pause()
Pause(status_code) ==
    /\ pc = "run"
    /\ params["state"] = "pause"
    /\ op' = "pause"
    /\ params' = popped(params)
    /\ IF check_mode
       THEN /\ Exit(exit_json_data(FALSE, EmptyDict))
            /\ UNCHANGED <<requests, response>>
       ELSE LET uuid == params["uuid"]
            IN  /\ requests' = Append(requests,
                       [method |-> "POST", endpoint |-> <<"checks/">> \o uuid \o <<"/pause">>])
                /\ response' = [status_code |-> status_code, json |-> EmptyDict]
                /\ Exit(pause_response(uuid, status_code))
    /\ UNCHANGED <<check_mode, args, invocation, remote, hist>>

----------------------------------------------------------------------------
\* The module against a remote service that may answer anything

Init ==
    /\ pc = "start"
    /\ check_mode = FALSE
    /\ args = EmptyDict
    /\ params = EmptyDict
    /\ op = "none"
    /\ requests = <<>>
    /\ response = NoResponse
    /\ outcome = "none"
    /\ result = NoResult
    /\ exc = "none"
    /\ invocation = 0
    /\ remote = {}
    /\ hist = NoHist

Invoke ==
    \E st \in StateArgs, uu \in UuidArgs, tg \in TagsArgs, nm \in NameArgs,
       tm \in TimeoutArgs, cm \in BOOLEAN :
        Main(Supplied(st, uu, tg, nm, tm), cm)

RunCreate == \E s \in Statuses, b \in Bodies : Create([status_code |-> s, json |-> b])

RunDelete == \E s \in Statuses : Delete(s) /\ UNCHANGED <<remote, hist>>

RunPause == \E s \in Statuses : Pause(s)

Next == Invoke \/ RunCreate \/ RunDelete \/ RunPause

Spec == Init /\ [][Next]_vars

----------------------------------------------------------------------------
\* Repeated deletion of one check against a remote service that answers a
\* DELETE of a check it holds with 200 and removes it, and a DELETE of a
\* check it does not hold with 404.

RemoteUuids == {UUID_ABC, UUID_1, UUID_2}

TargetArgs == Optional({UUID_ABC, UUID_1})

InitIdem ==
    /\ pc = "start"
    /\ check_mode = FALSE
    /\ args = EmptyDict
    /\ params = EmptyDict
    /\ op = "none"
    /\ requests = <<>>
    /\ response = NoResponse
    /\ outcome = "none"
    /\ result = NoResult
    /\ exc = "none"
    /\ invocation = 0
    /\ remote \in {r \in SUBSET RemoteUuids : Cardinality(r) <= MaxRemote}
    /\ hist \in {[NoHist EXCEPT !.target = t] : t \in TargetArgs}

InvokeIdem ==
    \E cm \in BOOLEAN : Main(Supplied(<<"absent">>, hist.target, <<>>, <<>>, <<>>), cm)

\* delete() against that remote service.  hist counts the invocations that
\* reported changed=true (changed) and those that were no dry run (real),
\* keeps real as it was before the invocation (prior) and the remote state
\* the first invocation that was no dry run left (first).
DeleteIdeal ==
    LET uuid == params["uuid"]
        held == uuid \in remote
    IN  /\ Delete(IF held THEN 200 ELSE 404)
        /\ remote' = IF check_mode THEN remote ELSE remote \ {uuid}
        /\ hist' = [hist EXCEPT
                      !.changed = @ + (IF result'.changed THEN 1 ELSE 0),
                      !.prior = hist.real,
                      !.real = @ + (IF check_mode THEN 0 ELSE 1),
                      !.first = IF ~check_mode /\ hist.real = 0 THEN remote' ELSE @]

NextIdem == InvokeIdem \/ DeleteIdeal

SpecIdem == InitIdem /\ [][NextIdem]_vars

----------------------------------------------------------------------------
\* Properties

\* the invocation has ended after the call of the method m was answered
Answered(m) == pc = "exited" /\ op = m /\ ~check_mode /\ requests # <<>>

\* the value the caller gave option k, or the option's declared default
Given(k) == IF k \in DOMAIN args THEN args[k] ELSE argument_spec[k]

\* the decimal text of the status codes of Statuses
StatusText(s) ==
    CASE s = 200 -> <<"2", "0", "0">> [] s = 201 -> <<"2", "0", "1">>
      [] s = 204 -> <<"2", "0", "4">> [] s = 400 -> <<"4", "0", "0">>
      [] s = 404 -> <<"4", "0", "4">> [] s = 500 -> <<"5", "0", "0">>

\* the positions of "/" in url
Slashes(url) == {i \in 1..Len(url) : url[i] = "/"}

\* url has a third "/"
HasThirdSlash(url) == Cardinality(Slashes(url)) >= 3

\* the piece of url between its third "/" and the next "/" (or the end)
AfterThirdSlash(url) ==
    LET third == CHOOSE i \in Slashes(url) :
                     Cardinality({j \in Slashes(url) : j < i}) = 2
        later == {j \in Slashes(url) : j > third}
        stop == IF later = {} THEN Len(url) + 1
                ELSE CHOOSE j \in later : \A m \in later : j <= m
    IN  SubSeq(url, third + 1, stop - 1)

\* C1: for state=present, a response whose status is neither 200 nor 201
\* ends the invocation with fail_json, changed=false and the status code in
\* the message, whatever the response body is.
C1_PresentOtherStatusFails ==
    (Answered("create") /\ response.status_code \notin {200, 201})
        => /\ outcome = "fail_json"
           /\ result.changed = FALSE
           /\ result.msg = <<"Failed to create or update delete check [HTTP ">>
                           \o StatusText(response.status_code) \o <<"]">>

\* C2: with state absent or pause and no uuid supplied, the invocation is
\* rejected by the argument validation and no call is made.
C2_MissingUuidRejected ==
    (/\ pc # "start"
     /\ "state" \in DOMAIN args
     /\ args["state"] \in {"absent", "pause"}
     /\ "uuid" \notin DOMAIN args)
        => /\ pc = "exited"
           /\ op = "none"
           /\ outcome = "fail_json"
           /\ requests = <<>>

C4_Example ==
    (/\ Answered("create")
     /\ DOMAIN args = {"api_token", "state", "name", "timeout"}
     /\ args["state"] = "present"
     /\ args["name"] = NAME_NIGHTLY
     /\ args["timeout"] = 86400
     /\ response = [status_code |-> 201, json |-> [ping_url |-> URL_PING]])
        => /\ outcome = "exit_json"
           /\ result.changed = TRUE
           /\ result.msg = <<"New check ">> \o UUID_1 \o <<" created">>

\* C5: in check mode no call is made, and the invocation ends with exit_json
\* and changed=false, whatever the state and the parameters are.
C5_CheckModeNoCall ==
    check_mode => /\ requests = <<>>
                  /\ response = NoResponse
                  /\ pc = "exited" => /\ outcome = "exit_json"
                                      /\ "changed" \in result.keys
                                      /\ result.changed = FALSE

\* C5 witness: a dry run of pause without a uuid has ended.
C5_Witness ==
    /\ check_mode
    /\ pc = "exited"
    /\ op = "pause"
    /\ "uuid" \notin DOMAIN args
    /\ outcome = "exit_json"

\* C6: for delete and pause, a 200 ends with exit_json and changed=true, a
\* 404 with exit_json, changed=false and the message "Check <uuid> not found".
C6_DeletePause200And404 ==
    \A m \in {"delete", "pause"} :
        Answered(m) =>
            /\ response.status_code = 200
                   => outcome = "exit_json" /\ result.changed = TRUE
            /\ response.status_code = 404
                   => /\ outcome = "exit_json"
                      /\ result.changed = FALSE
                      /\ result.msg = <<"Check ">> \o Given("uuid") \o <<" not found">>

\* C6 witness: the delete of abc-123 answered by 404 reports
\* "Check abc-123 not found".
C6_Witness ==
    /\ Answered("delete")
    /\ response.status_code = 404
    /\ outcome = "exit_json"
    /\ result.changed = FALSE
    /\ result.msg = <<"Check ", "a", "b", "c", "-", "1", "2", "3", " not found">>

\* C7: for delete and pause, a status other than 200 and 404 ends with
\* fail_json, changed=false and the message
\* "Failed delete check <uuid> [HTTP <status>]", for pause as for delete.
C7_DeletePauseOtherStatusFails ==
    \A m \in {"delete", "pause"} :
        (Answered(m) /\ response.status_code \notin {200, 404})
            => /\ outcome = "fail_json"
               /\ result.changed = FALSE
               /\ result.msg = <<"Failed delete check ">> \o Given("uuid") \o <<" [HTTP ">>
                               \o StatusText(response.status_code) \o <<"]">>

\* C7 witness: the pause of abc-123 answered by 500 has failed.
C7_Witness ==
    /\ Answered("pause")
    /\ response.status_code = 500
    /\ Given("uuid") = UUID_ABC
    /\ outcome = "fail_json"

\* the one call the method m makes for uuid u
CallOf(m, u) ==
    CASE m = "create" -> [method |-> "POST", endpoint |-> <<"checks/">>]
      [] m = "delete" -> [method |-> "DELETE", endpoint |-> <<"checks/">> \o u]
      [] m = "pause" -> [method |-> "POST", endpoint |-> <<"checks/">> \o u \o <<"/pause">>]

\* C8: an invocation runs the one method its state selects, makes at most
\* one call, which is the call of that method, and ends with exactly one
\* outcome reported through exit_json or fail_json.
C8_OneOperationOneOutcome ==
    pc = "exited" =>
        /\ op = CASE Given("state") = "present" -> "create"
                  [] Given("state") = "absent" -> "delete"
                  [] Given("state") = "pause" -> "pause"
        /\ Len(requests) <= 1
        /\ \A i \in 1..Len(requests) :
               /\ requests[i].method = CallOf(op, Given("uuid")).method
               /\ requests[i].endpoint = CallOf(op, Given("uuid")).endpoint
        /\ outcome \in {"exit_json", "fail_json"}

\* the tag lists of TagsArgs joined by single spaces
SpaceJoined(t) ==
    CASE t = <<>> -> <<>>
      [] t = <<TAG_DB>> -> <<"d", "b">>
      [] t = <<TAG_DB, TAG_PROD>> -> <<"d", "b", " ", "p", "r", "o", "d">>

\* C9: the body of the create-or-update call has no uuid key, holds every
\* other parameter left in module.params with its value, except tags, which
\* is the tag list joined by single spaces; module.params still holds uuid
\* and tags as the list.
C9_RequestBody ==
    (op = "create" /\ requests # <<>>)
        => LET body == requests[1].data
           IN  /\ "uuid" \notin DOMAIN body
               /\ DOMAIN body = (DOMAIN argument_spec) \ {"state", "uuid"}
               /\ \A k \in DOMAIN body \ {"tags"} : body[k] = Given(k)
               /\ body["tags"] = SpaceJoined(Given("tags"))
               /\ DOMAIN params = (DOMAIN argument_spec) \ {"state"}
               /\ params["tags"] = Given("tags")
               /\ params["uuid"] = Given("uuid")

\* C9 witness: a create call was made for a caller that passed a uuid and
\* two tags.
C9_Witness ==
    /\ op = "create"
    /\ requests # <<>>
    /\ "uuid" \in DOMAIN args
    /\ args["uuid"] = UUID_ABC
    /\ Given("tags") = <<TAG_DB, TAG_PROD>>
    /\ requests[1].data["tags"] = <<"d", "b", " ", "p", "r", "o", "d">>

\* C10: over a run of state=absent invocations with one uuid against the
\* remote service of SpecIdem, changed=true is reported at most once; once
\* an invocation that was no dry run has ended, every later invocation ends
\* with exit_json and changed=false, and the remote state stays the one that
\* invocation left.
C10_DeleteIdempotent ==
    /\ hist.changed <= 1
    /\ (pc = "exited" /\ hist.prior >= 1)
           => outcome = "exit_json" /\ result.changed = FALSE
    /\ hist.real >= 1 => /\ remote = hist.first
                         /\ Given("uuid") \notin remote

\* C10 witness: the check was held, one invocation deleted it and a later
\* one found it gone.
C10_Witness ==
    /\ pc = "exited"
    /\ hist.real >= 2
    /\ hist.changed = 1
    /\ response.status_code = 404

====
